---- MODULE Spec2Model ----
(***************************************************************************)
(* Model of src/app.py: the request handler index(), the two LLM gateway   *)
(* calls, MarketService.get_analysis_data and the reply parser             *)
(* parse_analysis.  Texts are sequences of one-character strings, so that  *)
(* replace, strip, split, upper and startswith are computed as Python      *)
(* computes them.                                                          *)
(***************************************************************************)
EXTENDS Integers, Sequences, FiniteSets, TLC

VARIABLES pc, mode, alphaKey, upstream, data, llmCalled, llmFailed,
          text, lines, i, res, result

vars == <<pc, mode, alphaKey, upstream, data, llmCalled, llmFailed,
          text, lines, i, res, result>>

\* ------------------------------------------------------------------ bounds

\* Longest generic LLM reply, in lines.
MaxLines == 3

\* ------------------------------------------------------- Python str helpers

\* Python's None.
None == [none |-> TRUE]

\* Characters str.strip() removes (those that occur in the modelled texts).
Whitespace == {" ", "\t", "\r", "\n"}

LowerCase == <<"a", "b", "c", "d", "e", "f", "g", "h", "i", "j", "k", "l", "m", "n", "o", "p", "q", "r", "s", "t", "u", "v", "w", "x", "y", "z", "ó">>
UpperCase == <<"A", "B", "C", "D", "E", "F", "G", "H", "I", "J", "K", "L", "M", "N", "O", "P", "Q", "R", "S", "T", "U", "V", "W", "X", "Y", "Z", "Ó">>

\* str.upper(), one character.
UpperChar(c) ==
    IF \E n \in DOMAIN LowerCase : LowerCase[n] = c
    THEN UpperCase[CHOOSE n \in DOMAIN LowerCase : LowerCase[n] = c]
    ELSE c

\* str.upper()
Upper(s) == [n \in 1..Len(s) |-> UpperChar(s[n])]

\* str.strip()
Strip(s) ==
    LET keep == {n \in 1..Len(s) : s[n] \notin Whitespace}
    IN  IF keep = {} THEN <<>>
        ELSE SubSeq(s, CHOOSE n \in keep : \A m \in keep : n <= m,
                       CHOOSE n \in keep : \A m \in keep : m <= n)

\* str.replace('**', ''): non-overlapping occurrences, left to right.
RECURSIVE ReplaceStars(_)
ReplaceStars(s) ==
    LET at == {n \in 1..(Len(s) - 1) : s[n] = "*" /\ s[n + 1] = "*"}
    IN  IF at = {} THEN s
        ELSE LET p == CHOOSE n \in at : \A m \in at : n <= m
             IN  SubSeq(s, 1, p - 1) \o ReplaceStars(SubSeq(s, p + 2, Len(s)))

\* Index of the first occurrence of character c in s, 0 when there is none.
Find(s, c) ==
    LET at == {n \in 1..Len(s) : s[n] = c}
    IN  IF at = {} THEN 0 ELSE CHOOSE n \in at : \A m \in at : n <= m

\* str.split('\n')
RECURSIVE SplitLines(_)
SplitLines(s) ==
    LET p == Find(s, "\n")
    IN  IF p = 0 THEN <<s>>
        ELSE <<SubSeq(s, 1, p - 1)>> \o SplitLines(SubSeq(s, p + 1, Len(s)))

\* A variant of SplitColon that splits on the last colon (str.rsplit).
SplitColon_Last(line) ==
    LET at == {n \in 1..Len(line) : line[n] = ":"}
    IN  IF at = {} THEN <<line>>
        ELSE LET p == CHOOSE n \in at : \A m \in at : m <= n
             IN  <<SubSeq(line, 1, p - 1), SubSeq(line, p + 1, Len(line))>>

\* line.split(':', 1)
SplitColon(line) ==
    LET p == Find(line, ":")
    IN  IF p = 0 THEN <<line>>
        ELSE <<SubSeq(line, 1, p - 1), SubSeq(line, p + 1, Len(line))>>

\* A variant of StartsWith that accepts the keyword anywhere in the line
\* (kw in upper).
StartsWith_Contains(s, kw) ==
    \E n \in 0..(Len(s) - Len(kw)) : SubSeq(s, n + 1, n + Len(kw)) = kw

\* str.startswith(kw)
StartsWith(s, kw) ==
    Len(s) >= Len(kw) /\ SubSeq(s, 1, Len(kw)) = kw

\* '\n'.join(ls)
RECURSIVE JoinLines(_)
JoinLines(ls) ==
    IF Len(ls) = 0 THEN <<>>
    ELSE IF Len(ls) = 1 THEN ls[1]
    ELSE ls[1] \o <<"\n">> \o JoinLines(Tail(ls))

\* ------------------------------------------------------------ parse_analysis

\* The keys of the parsed record, in the iteration order of mapeo.
Keys == <<"tecnico", "decision", "tipo", "riesgo", "motivo">>

\* A variant of res0 that leaves 'motivo' out.
res0_NoMotivo ==
    [tecnico |-> <<".", ".", ".">>, decision |-> <<"E", "S", "P", "E", "R", "A", "R">>, tipo |-> <<"N", "/", "A">>,
     riesgo |-> <<"A", "L", "T", "O">>]

\* A variant of res0 whose risk default is not the fail-safe one.
res0_LowRisk ==
    [tecnico |-> <<".", ".", ".">>, decision |-> <<"E", "S", "P", "E", "R", "A", "R">>, tipo |-> <<"N", "/", "A">>,
     riesgo |-> <<"B", "A", "J", "O">>, motivo |-> <<".", ".", ".">>]

\* The record parse_analysis starts from.
res0 ==
    [tecnico |-> <<".", ".", ".">>, decision |-> <<"E", "S", "P", "E", "R", "A", "R">>, tipo |-> <<"N", "/", "A">>,
     riesgo |-> <<"A", "L", "T", "O">>, motivo |-> <<".", ".", ".">>]

\* A variant of mapeo in which a keyword of 'decision' is a prefix of a
\* keyword of 'tipo'.
mapeo_Overlap ==
    [tecnico  |-> << <<"A", "N", "A", "L", "I", "S", "I", "S">>, <<"E", "S", "T", "R", "U", "C", "T", "U", "R", "A">> >>,
     decision |-> << <<"D", "E", "C", "I", "S", "I", "O", "N">>, <<"D", "E", "C", "I", "S", "I", "Ó", "N">>, <<"O", "P", "E", "R", "A">> >>,
     tipo     |-> << <<"T", "I", "P", "O">>, <<"O", "P", "E", "R", "A", "C", "I", "O", "N">> >>,
     riesgo   |-> << <<"R", "I", "E", "S", "G", "O">> >>,
     motivo   |-> << <<"M", "O", "T", "I", "V", "O">>, <<"J", "U", "S", "T", "I", "F", "I", "C", "A", "C", "I", "O", "N">> >>]

\* The keyword table.
mapeo ==
    [tecnico  |-> << <<"A", "N", "A", "L", "I", "S", "I", "S">>, <<"E", "S", "T", "R", "U", "C", "T", "U", "R", "A">> >>,
     decision |-> << <<"D", "E", "C", "I", "S", "I", "O", "N">>, <<"D", "E", "C", "I", "S", "I", "Ó", "N">> >>,
     tipo     |-> << <<"T", "I", "P", "O">>, <<"O", "P", "E", "R", "A", "C", "I", "O", "N">> >>,
     riesgo   |-> << <<"R", "I", "E", "S", "G", "O">> >>,
     motivo   |-> << <<"M", "O", "T", "I", "V", "O">>, <<"J", "U", "S", "T", "I", "F", "I", "C", "A", "C", "I", "O", "N">> >>]

\* Variants of ApplyKeyword: a header without a colon stores the empty
\* string; the value is stored unstripped; a field already extracted is not
\* overwritten.
ApplyKeyword_EmptyValue(r, line, upper, key, kw) ==
    IF StartsWith(upper, kw)
    THEN LET parts == SplitColon(line)
         IN  [r EXCEPT ![key] = IF Len(parts) > 1 THEN Strip(parts[2]) ELSE <<>>]
    ELSE r

ApplyKeyword_NoStrip(r, line, upper, key, kw) ==
    IF StartsWith(upper, kw)
    THEN LET parts == SplitColon(line)
         IN  IF Len(parts) > 1 THEN [r EXCEPT ![key] = parts[2]] ELSE r
    ELSE r

ApplyKeyword_FirstWins(r, line, upper, key, kw) ==
    IF StartsWith(upper, kw) /\ r[key] = res0[key]
    THEN LET parts == SplitColon(line)
         IN  IF Len(parts) > 1 THEN [r EXCEPT ![key] = Strip(parts[2])] ELSE r
    ELSE r

\* The body of the innermost loop: one keyword tested against one line.
ApplyKeyword(r, line, upper, key, kw) ==
    IF StartsWith(upper, kw)
    THEN LET parts == SplitColon(line)
         IN  IF Len(parts) > 1 THEN [r EXCEPT ![key] = Strip(parts[2])] ELSE r
    ELSE r

\* for kw in keywords: ... (keywords n.. of one key)
RECURSIVE ApplyKeywords(_, _, _, _, _)
ApplyKeywords(r, line, upper, key, n) ==
    IF n > Len(mapeo[key]) THEN r
    ELSE ApplyKeywords(ApplyKeyword(r, line, upper, key, mapeo[key][n]),
                       line, upper, key, n + 1)

\* for key, keywords in mapeo.items(): ... (keys k.. of the table)
RECURSIVE ApplyFields(_, _, _, _)
ApplyFields(r, line, upper, k) ==
    IF k > Len(Keys) THEN r
    ELSE ApplyFields(ApplyKeywords(r, line, upper, Keys[k], 1), line, upper, k + 1)

\* One iteration of the loop over the lines.
ProcessLine(r, raw) ==
    LET line == Strip(raw)
    IN  IF line = <<>> THEN r
        ELSE ApplyFields(r, line, Upper(line), 1)

\* clean.split('\n')
CleanLines(t) == SplitLines(Strip(ReplaceStars(t)))

\* ------------------------------------------------- external collaborators

\* What the market-data provider does with a request.
Upstream == {"ok", "no_series", "exception"}

\* The summary get_analysis_data builds from a series.
Summary ==
    [symbol |-> "EURUSD", price |-> 1, rsi |-> 50, ema20 |-> 1, ema50 |-> 1,
     trend |-> "BAJISTA", change_pct |-> 0]

\* A variant of get_analysis_data without the check of the API key.
get_analysis_data_NoKeyCheck(key, up) ==
    IF up = "ok" THEN Summary ELSE None

\* MarketService.get_analysis_data
get_analysis_data(key, up) ==
    IF ~key THEN None
    ELSE IF up = "ok" THEN Summary
    ELSE None

\* The prefix of the string the gateways return when the LLM call raises.
ERROR_IA == <<"E", "R", "R", "O", "R", "_", "I", "A", ":", " ">>

\* str(e) of the exceptions modelled.
ErrorDetails == { <<"5", "0", "3">>, <<"c", "u", "o", "t", "a", ":", " ", "4", "2", "9">> }

\* Lines an LLM reply is made of.
ReplyLines ==
    { <<"D", "E", "C", "I", "S", "I", "O", "N", ":", " ", "N", "O", " ", "O", "P", "E", "R", "A", "R">>,
      <<"D", "E", "C", "I", "S", "I", "O", "N", ":", " ", "E", "S", "P", "E", "R", "A", "R">>,
      <<"*", "*", "D", "e", "c", "i", "s", "i", "ó", "n", ":", "*", "*", " ", "q", "u", "i", "z", "a", "s">>,
      <<"R", "I", "E", "S", "G", "O", ":">>,
      <<"M", "e", "d", "i", "o", ",", " ", "p", "o", "r", " ", "v", "o", "l", "a", "t", "i", "l", "i", "d", "a", "d">>,
      <<"M", "O", "T", "I", "V", "O", ":", " ", "a">>,
      <<"y", " ", "T", "I", "P", "O", ":", " ", "b">>,
      <<"T", "I", "P", "O">>,
      <<" ", "O", "P", "E", "R", "A", "C", "I", "O", "N", " ", ":", " ", "V", "E", "N", "T", "A", ":", "x", "\r">> }

\* The five labelled lines of a reply in the requested format; the first
\* field has two variants.
FormatLines ==
    [tecnico  |-> << <<"A", "N", "A", "L", "I", "S", "I", "S", ":", " ", "S", "t", "r", "o", "n", "g", " ", "u", "p", "t", "r", "e", "n", "d">>, <<"e", "s", "t", "r", "u", "c", "t", "u", "r", "a", ":", " ", "a", "*", "*", "b", ":", "c", " ">> >>,
     decision |-> << <<"D", "E", "C", "I", "S", "I", "O", "N", ":", " ", "O", "P", "E", "R", "A", "R">> >>,
     tipo     |-> << <<"T", "I", "P", "O", ":", " ", "C", "O", "M", "P", "R", "A">> >>,
     riesgo   |-> << <<"R", "I", "E", "S", "G", "O", ":", " ", "B", "A", "J", "O">> >>,
     motivo   |-> << <<"M", "O", "T", "I", "V", "O", ":", " ", "B", "r", "e", "a", "k", "o", "u", "t", " ", "c", "o", "n", "f", "i", "r", "m", "e", "d">> >>]

\* The orders of the five keys.
KeyOrders ==
    {p \in [1..Len(Keys) -> 1..Len(Keys)] :
        \A a, b \in 1..Len(Keys) : a # b => p[a] # p[b]}

\* Replies in the requested format, the five lines in any order.
FormatReplies ==
    {JoinLines([n \in 1..Len(Keys) |->
                  FormatLines[Keys[p[n]]][IF Keys[p[n]] = "tecnico" THEN v ELSE 1]])
        : p \in KeyOrders, v \in 1..2}

\* Free-form replies of at most MaxLines lines.
FreeReplies ==
    {JoinLines(ls) : ls \in UNION {[1..n -> ReplyLines] : n \in 0..MaxLines}}

\* response.text
Replies == FreeReplies \cup FormatReplies

\* ------------------------------------------------------------------ index()

ConnectionError ==
    "Error de Conexión Alpha Vantage (Verifica tu API KEY o límites de uso)."

Init ==
    /\ pc = "start"
    /\ mode = "image"
    /\ alphaKey \in BOOLEAN
    /\ upstream = "none"
    /\ data = None
    /\ llmCalled = FALSE
    /\ llmFailed = FALSE
    /\ text = <<>>
    /\ lines = <<>>
    /\ i = 0
    /\ res = res0
    /\ result = None

\* A GET request: the page is rendered with result = None.
IndexGet ==
    /\ pc = "start"
    /\ pc' = "done"
    /\ UNCHANGED <<mode, alphaKey, upstream, data, llmCalled, llmFailed,
                   text, lines, i, res, result>>

\* A POST in image mode without a file, or with a mode that is neither
\* 'image' nor 'api': no branch assigns result.
PostNothing ==
    /\ pc = "start"
    /\ \E m \in {"image", "other"} : mode' = m
    /\ pc' = "done"
    /\ UNCHANGED <<alphaKey, upstream, data, llmCalled, llmFailed,
                   text, lines, i, res, result>>

\* A POST in image mode with a file: the file is saved, analyze_chart is next.
PostImage ==
    /\ pc = "start"
    /\ mode' = "image"
    /\ pc' = "llm"
    /\ UNCHANGED <<alphaKey, upstream, data, llmCalled, llmFailed,
                   text, lines, i, res, result>>

\* A POST in api mode: get_analysis_data, then the branch on its value.
PostApi ==
    /\ pc = "start"
    /\ mode' = "api"
    /\ \E up \in Upstream :
          /\ upstream' = up
          /\ data' = get_analysis_data(alphaKey, up)
    /\ IF data' # None
       THEN /\ pc' = "llm"
            /\ UNCHANGED result
       ELSE /\ pc' = "done"
            /\ result' = [error |-> ConnectionError]
    /\ UNCHANGED <<alphaKey, llmCalled, llmFailed, text, lines, i, res>>

\* analyze_chart / analyze_data_with_ai: generate_content returns a reply.
GenerateOk ==
    /\ pc = "llm"
    /\ \E t \in Replies : text' = t
    /\ llmCalled' = TRUE
    /\ pc' = "parse"
    /\ UNCHANGED <<mode, alphaKey, upstream, data, llmFailed, lines, i, res, result>>

\* analyze_chart / analyze_data_with_ai: generate_content raises.
GenerateFail ==
    /\ pc = "llm"
    /\ \E d \in ErrorDetails : text' = ERROR_IA \o d
    /\ llmCalled' = TRUE
    /\ llmFailed' = TRUE
    /\ pc' = "parse"
    /\ UNCHANGED <<mode, alphaKey, upstream, data, lines, i, res, result>>

\* parse_analysis, up to the loop.
ParseStart ==
    /\ pc = "parse"
    /\ res' = res0
    /\ lines' = CleanLines(text)
    /\ i' = 1
    /\ pc' = "loop"
    /\ UNCHANGED <<mode, alphaKey, upstream, data, llmCalled, llmFailed, text, result>>

\* parse_analysis, one line.
ParseLine ==
    /\ pc = "loop"
    /\ i <= Len(lines)
    /\ res' = ProcessLine(res, lines[i])
    /\ i' = i + 1
    /\ UNCHANGED <<pc, mode, alphaKey, upstream, data, llmCalled, llmFailed,
                   text, lines, result>>

\* return res, and the annotation index() adds.
ParseReturn ==
    /\ pc = "loop"
    /\ i > Len(lines)
    /\ result' = IF mode = "image"
                 THEN res @@ [filename |-> "chart.jpg"]
                 ELSE res @@ [market_data |-> data]
    /\ pc' = "done"
    /\ UNCHANGED <<mode, alphaKey, upstream, data, llmCalled, llmFailed,
                   text, lines, i, res>>

Next ==
    \/ IndexGet
    \/ PostNothing
    \/ PostImage
    \/ PostApi
    \/ GenerateOk
    \/ GenerateFail
    \/ ParseStart
    \/ ParseLine
    \/ ParseReturn

Spec == Init /\ [][Next]_vars

\* ---------------------------------------------------------------- properties

\* The keys of the parsed record, as a set.
FieldKeys == {Keys[n] : n \in 1..Len(Keys)}

\* The documented defaults: sentinel, WAIT, NONE, HIGH, sentinel.
DocumentedDefaults ==
    [tecnico |-> <<".", ".", ".">>, decision |-> <<"E", "S", "P", "E", "R", "A", "R">>, tipo |-> <<"N", "/", "A">>,
     riesgo |-> <<"A", "L", "T", "O">>, motivo |-> <<".", ".", ".">>]

\* The characters of the texts the model handles.
Chars ==
    UNION {{t[n] : n \in 1..Len(t)} :
             t \in Replies \cup {ERROR_IA \o d : d \in ErrorDetails}
                           \cup {DocumentedDefaults[k] : k \in FieldKeys}}

\* v is a string (and so neither missing nor None).
IsText(v) == v \in Seq(Chars)

\* The three canonical decisions, as the prompts spell them.
OPERATE == <<"O", "P", "E", "R", "A", "R">>
WAIT == <<"E", "S", "P", "E", "R", "A", "R">>
DO_NOT_OPERATE == <<"N", "O", " ", "O", "P", "E", "R", "A", "R">>
Canonical == {OPERATE, WAIT, DO_NOT_OPERATE}

\* s begins with p, character by character.
BeginsWith(s, p) == Len(s) >= Len(p) /\ \A n \in 1..Len(p) : s[n] = p[n]

\* The text after the first colon of s (s has a colon).
AfterColon(s) ==
    LET at == {n \in 1..Len(s) : s[n] = ":"}
    IN  SubSeq(s, 1 + (CHOOSE n \in at : \A m \in at : n <= m), Len(s))

HasColon(s) == \E n \in 1..Len(s) : s[n] = ":"

\* The stripped line is a header line of key: its uppercased form starts
\* with one of the key's keywords.
IsHeader(line, key) ==
    \E m \in 1..Len(mapeo[key]) : BeginsWith(Upper(line), mapeo[key][m])

\* The line starts with no keyword at all.
IsPlain(line) == \A k \in FieldKeys : ~IsHeader(line, k)

\* The lines the parser reads (after '**' is removed), stripped.
Line(n) == Strip(lines[n])

\* The lines before line n that are header lines of some key.
HeadersBefore(n) == {m \in 1..(n - 1) : ~IsPlain(Line(m))}

\* The key whose section is open at line n: that of the last header line
\* before it (there is one).
ActiveKey(n) ==
    LET last == CHOOSE m \in HeadersBefore(n) : \A j \in HeadersBefore(n) : j <= m
    IN  CHOOSE k \in FieldKeys : IsHeader(Line(last), k)

\* The header lines of key that carry a colon.
ValueLines(key) ==
    {n \in 1..Len(lines) : IsHeader(Line(n), key) /\ HasColon(Line(n))}

\* What the reply wrote for key: the trimmed text after the first colon of
\* its last header line with a colon.
Written(key) ==
    LET n == CHOOSE n \in ValueLines(key) : \A m \in ValueLines(key) : m <= n
    IN  Strip(AfterColon(Line(n)))

\* parse_analysis has returned and index() holds its record.
Parsed == pc = "done" /\ llmCalled

\* A step of the loop of parse_analysis over line i.
LineStep == pc = "loop" /\ i <= Len(lines) /\ i' = i + 1

\* The market-data fetch of this request was unavailable.
Unavailable == upstream # "none" /\ (~alphaKey \/ upstream # "ok")

\* ---- C1 ----
\* C1: for every input text parse_analysis ends without an error and returns
\* a record whose five fields are all set, each to a string: while it runs
\* the loop index stays within the lines and the record keeps its five
\* string fields, and the record index() receives has them too.
C1_AlwaysPopulated ==
    /\ pc = "loop" =>
          /\ i \in 1..(Len(lines) + 1)
          /\ \A k \in FieldKeys : k \in DOMAIN res /\ IsText(res[k])
    /\ Parsed =>
          \A k \in FieldKeys : k \in DOMAIN result /\ IsText(result[k])

\* C1 witness: a garbage reply (non-empty, no header line) has been parsed
\* into the five defaults.
C1_Witness ==
    /\ Parsed /\ ~llmFailed
    /\ text = <<"M", "e", "d", "i", "o", ",", " ", "p", "o", "r", " ", "v", "o", "l", "a", "t", "i", "l", "i", "d", "a", "d">>
    /\ \A k \in FieldKeys : result[k] = DocumentedDefaults[k]

C4_MissingKeepDefault ==
    Parsed =>
       /\ \A k \in FieldKeys :
             (\A n \in 1..Len(lines) : ~IsHeader(Line(n), k))
                => result[k] = DocumentedDefaults[k]
       /\ text = <<>> => \A k \in FieldKeys : result[k] = DocumentedDefaults[k]

\* C4 witness: a reply with a decision header and no risk header has been
\* parsed: the decision is extracted, the risk is HIGH.
C4_Witness ==
    /\ Parsed
    /\ result.decision = DO_NOT_OPERATE
    /\ \A n \in 1..Len(lines) : ~IsHeader(Line(n), "riesgo")
    /\ result.riesgo = <<"A", "L", "T", "O">>

\* ---- C5 ----
\* The lines of the reply as the LLM wrote it.
RawLines == SplitLines(text)

\* The line is 'KEYWORD: value' for key.
IsLabelled(line, key) ==
    \E m \in 1..Len(mapeo[key]) :
       BeginsWith(Upper(line), mapeo[key][m] \o <<":">>)

\* The reply is the five labelled lines, each field once, in some order.
WellFormed ==
    /\ Len(RawLines) = Len(Keys)
    /\ \A k \in FieldKeys :
          Cardinality({n \in 1..Len(RawLines) : IsLabelled(RawLines[n], k)}) = 1

\* The line of a well-formed reply that is labelled for key.
LabelledLine(key) ==
    RawLines[CHOOSE n \in 1..Len(RawLines) : IsLabelled(RawLines[n], key)]

\* C5 (as stated): for a well-formed reply, in any order of its five lines,
\* each field holds the trimmed text after the first colon of its line.
C5_ExtractsVerbatim ==
    (Parsed /\ WellFormed) =>
       \A k \in FieldKeys : result[k] = Strip(AfterColon(LabelledLine(k)))

\* C5 (amended): for a well-formed reply, in any order of its five lines,
\* each field holds the trimmed text after the first colon of its line with
\* every '**' removed from it.
C5_ExtractsWithoutStars ==
    (Parsed /\ WellFormed) =>
       \A k \in FieldKeys :
          result[k] = Strip(AfterColon(ReplaceStars(LabelledLine(k))))

\* C5 witness: a well-formed reply whose first line is the rationale and
\* whose last line is the summary has been parsed.
C5_Witness ==
    /\ Parsed /\ WellFormed
    /\ RawLines[1] = <<"M", "O", "T", "I", "V", "O", ":", " ", "B", "r", "e", "a", "k", "o", "u", "t", " ", "c", "o", "n", "f", "i", "r", "m", "e", "d">>
    /\ RawLines[5] = <<"A", "N", "A", "L", "I", "S", "I", "S", ":", " ", "S", "t", "r", "o", "n", "g", " ", "u", "p", "t", "r", "e", "n", "d">>
    /\ result.motivo = <<"B", "r", "e", "a", "k", "o", "u", "t", " ", "c", "o", "n", "f", "i", "r", "m", "e", "d">>
    /\ result.tecnico = <<"S", "t", "r", "o", "n", "g", " ", "u", "p", "t", "r", "e", "n", "d">>

C7_LLMFailureIsErrorRecord ==
    llmFailed =>
       /\ pc # "loop"
       /\ pc = "done" => DOMAIN result = {"error"}

\* ---- C8 ----
\* C8: in api mode, when the market-data fetch is unavailable (no API key,
\* no time series, an exception), the fetch returns None, the LLM is not
\* called, and the handler's result carries only the error message.
C8_UnavailableIsErrorRecord ==
    (mode = "api" /\ Unavailable) =>
       /\ data = None
       /\ ~llmCalled
       /\ pc = "done"
       /\ DOMAIN result = {"error"}
       /\ result.error = ConnectionError

\* C8 witness: the provider answered without a time series and the request
\* ended with the error record.
C8_Witness ==
    /\ pc = "done" /\ mode = "api"
    /\ alphaKey /\ upstream = "no_series"
    /\ DOMAIN result = {"error"}

\* ---- C9 ----
\* The positions in Keys of the keys the line is a header line of.
Matching(line) == {n \in 1..Len(Keys) : IsHeader(line, Keys[n])}

\* C9: a line changes the value of at most one field, and only that of the
\* first field in table order one of whose keywords the uppercased line
\* starts with.
C9_FirstMatchOnly ==
    [][LineStep =>
          LET changed == {k \in FieldKeys : res'[k] # res[k]}
              matching == Matching(Line(i))
          IN  /\ Cardinality(changed) <= 1
              /\ \A k \in changed :
                    /\ matching # {}
                    /\ k = Keys[CHOOSE n \in matching : \A m \in matching : n <= m]]_vars

\* C9 witness: the line ' OPERACION : VENTA:x' has been read and only the
\* position type has changed.
C9_Witness ==
    /\ pc = "loop" /\ i = 2
    /\ Line(1) = <<"O", "P", "E", "R", "A", "C", "I", "O", "N", " ", ":", " ", "V", "E", "N", "T", "A", ":", "x">>
    /\ res.tipo = <<"V", "E", "N", "T", "A", ":", "x">>
    /\ \A k \in FieldKeys \ {"tipo"} : res[k] = DocumentedDefaults[k]

====
